---- MODULE Spec2Model ----
(***************************************************************************)
(* A model of ogen (dnldd/ogen): the configuration resolver (loadConfig,   *)
(* registerFlag, Config.validate) and the lifecycle started by main        *)
(* (servePprof, handleTermination, generateData, the teardown closure).    *)
(*                                                                         *)
(* Library behaviour the program relies on is modelled at its call site:   *)
(*   godotenv.Load   parses the whole file first and fails without         *)
(*                   touching the environment; otherwise sets only the     *)
(*                   keys that are not already in the environment;         *)
(*   flag.StringVar  stores the default in the bound variable and panics   *)
(*                   when the name is already defined;                     *)
(*   flag.Parse      parses os.Args[1:] on every call and stores each      *)
(*                   passed value in the variable bound at registration;   *)
(*   errors.Join     drops nil arguments and does not flatten.             *)
(***************************************************************************)
EXTENDS Integers, Sequences, FiniteSets, TLC

(***************************************************************************)
(* Bounds of the model.                                                    *)
(***************************************************************************)
\* loadConfig calls made in one process (SpecConfig)
MaxCalls == 2
\* interrupts the OS delivers to the process (SpecMain)
MaxInterrupts == 2
\* Config objects a caller may pass to loadConfig
NumConfigs == 2

(***************************************************************************)
(* Configuration keys and values.                                          *)
(***************************************************************************)
\* flag / environment names, in the order loadConfig registers them
KeyOrder == <<"collectorgrpcurl", "collectorhttpurl", "servicename", "pprofurl">>

Keys == {KeyOrder[i] : i \in 1..Len(KeyOrder)}

\* the Config field each flag is bound to (&cfg.<Field>)
FieldOf ==
    [collectorgrpcurl |-> "CollectorGRPCURL",
     collectorhttpurl |-> "CollectorHTTPURL",
     servicename      |-> "ServiceName",
     pprofurl         |-> "PprofURL"]

\* "E": a value found in the environment, "F": in the dotenv file,
\* "A": passed as a command-line argument, "P": held by a Config beforehand
EnvValues  == {"E"}
FileValues == {"F"}
ArgValues  == {"A"}

\* Config{}
EmptyConfig ==
    [CollectorGRPCURL |-> "", CollectorHTTPURL |-> "",
     ServiceName |-> "", PprofURL |-> ""]

\* a Config that already holds values when it is passed in
HeldConfig ==
    [CollectorGRPCURL |-> "P", CollectorHTTPURL |-> "P",
     ServiceName |-> "P", PprofURL |-> "P"]

ConfigIds == 1..NumConfigs

\* functions from a subset of D to V
PartialFns(D, V) == UNION {[S -> V] : S \in SUBSET D}

NoVars == [k \in {} |-> ""]

(***************************************************************************)
(* Error values.                                                           *)
(***************************************************************************)
Nil == [kind |-> "nil"]

\* fmt.Errorf without %w
Errorf(msg) == [kind |-> "errorString", msg |-> msg]

\* fmt.Errorf("...: %w", err)
Wrapf(msg, err) == [kind |-> "wrapError", msg |-> msg, err |-> err]

\* errors.Join(a, b): nil arguments are discarded, nil when none is left
Join(a, b) ==
    LET es == (IF a = Nil THEN <<>> ELSE <<a>>) \o (IF b = Nil THEN <<>> ELSE <<b>>)
    IN  IF es = <<>> THEN Nil ELSE [kind |-> "joinError", errs |-> es]

\* the messages Error() prints for a (nested) joined error, in order
RECURSIVE Messages(_)
Messages(e) ==
    IF e.kind = "nil" THEN <<>>
    ELSE IF e.kind = "errorString" THEN <<e.msg>>
    ELSE IF e.kind = "wrapError" THEN <<e.msg>>
    ELSE IF Len(e.errs) = 1 THEN Messages(e.errs[1])
    ELSE Messages(e.errs[1]) \o Messages(e.errs[2])

(***************************************************************************)
(* Config.validate                                                         *)
(***************************************************************************)
\* a validate that stops at the first empty field
validateShortCircuit(c) ==
    IF c.CollectorGRPCURL = "" THEN Join(Nil, Errorf("collector grpc endpoint required"))
    ELSE IF c.CollectorHTTPURL = "" THEN Join(Nil, Errorf("collector http endpoint required"))
    ELSE IF c.ServiceName = "" THEN Join(Nil, Errorf("service name required"))
    ELSE IF c.PprofURL = "" THEN Join(Nil, Errorf("pprof endpoint required"))
    ELSE Nil

validate(c) ==
    LET e1 == IF c.CollectorGRPCURL = ""
              THEN Join(Nil, Errorf("collector grpc endpoint required")) ELSE Nil
        e2 == IF c.CollectorHTTPURL = ""
              THEN Join(e1, Errorf("collector http endpoint required")) ELSE e1
        e3 == IF c.ServiceName = ""
              THEN Join(e2, Errorf("service name required")) ELSE e2
        e4 == IF c.PprofURL = ""
              THEN Join(e3, Errorf("pprof endpoint required")) ELSE e3
    IN  e4

(***************************************************************************)
(* The process state the resolver works on, as one record w:               *)
(*   env              os.Environ, a function on the names that are set     *)
(*   fs               the dotenv files that exist, by path                 *)
(*   args             the flags passed in os.Args[1:]                      *)
(*   registeredFlags  the names whose entry in the map is true             *)
(*   CommandLine      flag.CommandLine: defined name -> the Config whose   *)
(*                    field the flag variable points to                    *)
(*   cfgs             the Config objects                                   *)
(*   defined          flag.StringVar calls made so far, per name           *)
(*   parses           flag.Parse calls made so far                         *)
(*   status           "running", "panic" (flag redefined), "exit"          *)
(*                    (flag.Parse on an undefined flag), "fatal"           *)
(*                    (concurrent map access detected by the runtime)      *)
(***************************************************************************)
\* os.Getenv
Getenv(e, name) == IF name \in DOMAIN e THEN e[name] ELSE ""

\* *value = v, for the field of cfgs[c] that the flag `name` stands for
SetField(w, c, name, v) == [w EXCEPT !.cfgs[c][FieldOf[name]] = v]

\* flag.StringVar(value, name, defaultValue, usage)
StringVar(w, c, name, defaultValue) ==
    IF name \in DOMAIN w.CommandLine
    THEN [w EXCEPT !.status = "panic", !.defined[name] = @ + 1]
    ELSE [SetField(w, c, name, defaultValue) EXCEPT
            !.CommandLine = [k \in DOMAIN w.CommandLine \cup {name} |->
                                IF k = name THEN c ELSE w.CommandLine[k]],
            !.defined[name] = @ + 1]

\* registeredFlags[name] = true
MarkRegistered(w, name) ==
    [w EXCEPT !.registeredFlags = @ \cup {name}]

\* lines 23-25: an already registered flag gets the environment's value
AssignDefault(w, c, name, defaultValue) ==
    IF name \in w.registeredFlags /\ defaultValue # ""
    THEN SetField(w, c, name, defaultValue)
    ELSE w

registerFlag(w, c, name) ==
    LET defaultValue == Getenv(w.env, name)
        w1 == IF name \notin w.registeredFlags
              THEN LET d == StringVar(w, c, name, defaultValue)
                   IN  IF d.status # "running" THEN d ELSE MarkRegistered(d, name)
              ELSE w
    IN  IF w1.status # "running" THEN w1
        ELSE AssignDefault(w1, c, name, defaultValue)

\* a flag.Parse that does nothing once the command line has been parsed
ParseOnce(w) ==
    IF w.parses > 0 THEN w
    ELSE [w EXCEPT
            !.parses = @ + 1,
            !.cfgs = [c \in DOMAIN w.cfgs |->
                        [f \in DOMAIN w.cfgs[c] |->
                            IF \E n \in DOMAIN w.args :
                                  /\ n \in DOMAIN w.CommandLine
                                  /\ w.CommandLine[n] = c
                                  /\ FieldOf[n] = f
                            THEN LET n == CHOOSE n \in DOMAIN w.args : FieldOf[n] = f
                                 IN  w.args[n]
                            ELSE w.cfgs[c][f]]]]

\* flag.Parse(): every passed flag is stored through its bound pointer
Parse(w) ==
    IF \E n \in DOMAIN w.args : n \notin DOMAIN w.CommandLine
    THEN [w EXCEPT !.parses = @ + 1, !.status = "exit"]
    ELSE [w EXCEPT
            !.parses = @ + 1,
            !.cfgs = [c \in DOMAIN w.cfgs |->
                        [f \in DOMAIN w.cfgs[c] |->
                            IF \E n \in DOMAIN w.args :
                                  w.CommandLine[n] = c /\ FieldOf[n] = f
                            THEN LET n == CHOOSE n \in DOMAIN w.args : FieldOf[n] = f
                                 IN  w.args[n]
                            ELSE w.cfgs[c][f]]]]

\* a godotenv.Load that overrides what the environment already holds
godotenvOverload(w, path) ==
    IF w.fs[path].malformed
    THEN [w |-> w, err |-> Errorf("godotenv: cannot parse")]
    ELSE [w |-> [w EXCEPT !.env =
                    [k \in DOMAIN w.env \cup DOMAIN w.fs[path].vars |->
                        IF k \in DOMAIN w.fs[path].vars
                        THEN w.fs[path].vars[k] ELSE w.env[k]]],
          err |-> Nil]

\* godotenv.Load(path)
godotenvLoad(w, path) ==
    IF w.fs[path].malformed
    THEN [w |-> w, err |-> Errorf("godotenv: cannot parse")]
    ELSE [w |-> [w EXCEPT !.env =
                    [k \in DOMAIN w.env \cup DOMAIN w.fs[path].vars |->
                        IF k \in DOMAIN w.env
                        THEN w.env[k] ELSE w.fs[path].vars[k]]],
          err |-> Nil]

\* lines 80-83: the four registerFlag calls, in order
RECURSIVE registerFlags(_, _, _)
registerFlags(w, c, i) ==
    IF i > Len(KeyOrder) \/ w.status # "running" THEN w
    ELSE registerFlags(registerFlag(w, c, KeyOrder[i]), c, i + 1)

\* lines 79-88 of loadConfig
registerParseValidate(w, c) ==
    LET w1 == registerFlags(w, c, 1)
        w2 == IF w1.status = "running" THEN Parse(w1) ELSE w1
    IN  [w |-> w2, validated |-> w2.status = "running",
         err |-> IF w2.status = "running" THEN validate(w2.cfgs[c]) ELSE Nil]

\* a loadConfig that goes on after a dotenv file failed to load
loadConfigIgnoringLoadError(w, c, path) ==
    LET p == IF path = "" THEN ".env" ELSE path
        l == IF p \in DOMAIN w.fs THEN godotenvLoad(w, p) ELSE [w |-> w, err |-> Nil]
    IN  registerParseValidate(l.w, c)

\* loadConfig(cfg, path)
loadConfig(w, c, path) ==
    LET p == IF path = "" THEN ".env" ELSE path
        l == IF p \in DOMAIN w.fs THEN godotenvLoad(w, p) ELSE [w |-> w, err |-> Nil]
    IN  IF l.err # Nil
        THEN [w |-> l.w, validated |-> FALSE,
              err |-> Wrapf("loading .env file", l.err)]
        ELSE registerParseValidate(l.w, c)

(***************************************************************************)
(* State.                                                                  *)
(***************************************************************************)
VARIABLES
    env,              \* the process environment
    fs,               \* the dotenv files on disk
    args,             \* the command-line flags passed to the process
    registeredFlags,  \* var registeredFlags
    CommandLine,      \* flag.CommandLine
    cfgs,             \* the Config objects
    defined,          \* flag.StringVar calls per name
    parses,           \* flag.Parse calls
    status,           \* "running", "panic", "exit", "fatal"
    ncalls,           \* loadConfig calls that have returned
    last,             \* the last loadConfig call: its Config, error, whether validate ran
    gs,               \* the goroutines that run loadConfig concurrently (SpecRace)
    mapWriters,       \* goroutines in the middle of a write to registeredFlags
    mainPc,           \* where main is
    providers,        \* the telemetry providers set up so far
    ctxDone,          \* the shared context has been cancelled
    wg,               \* the sync.WaitGroup counter
    inShutdown,       \* ppf.Close() has been called on the pprof server
    interrupt,        \* signals waiting in the interrupt channel (capacity 1)
    sent,             \* interrupts the OS has delivered to the process
    servePc,          \* where servePprof is
    serveErr,         \* what server.ListenAndServe returned
    serveLogged,      \* servePprof has logged "Serving pprof data"
    termPc,           \* where handleTermination is
    notify,           \* signal.Notify has registered the interrupt channel
    teardownCalls,    \* calls of the teardown closure
    tdi,              \* the teardown callback to run next (0 outside teardown)
    torn,             \* the teardown callbacks run so far, in order
    tornErr,          \* the first teardown callback that returned an error
    genPc,            \* where generateData is
    idx,              \* the roll counters created so far
    roll,             \* the roll being emitted
    rolled,           \* generateData has started a roll
    genErr,           \* the counter whose construction failed and was logged
    late              \* a statement of a roll has recorded telemetry after
                      \* the shutdown of its provider

cvars == <<env, fs, args, registeredFlags, CommandLine, cfgs, defined, parses, status>>
hvars == <<ncalls, last>>
rvars == <<gs, mapWriters>>
mvars == <<mainPc, providers>>
svars == <<servePc, serveErr, serveLogged>>
tvars == <<termPc, notify, teardownCalls, tdi, torn, tornErr>>
ovars == <<rolled, genErr, late>>
gvars == <<genPc, idx, roll, ovars>>
xvars == <<ctxDone, wg, inShutdown, interrupt, sent>>
lvars == <<mvars, svars, tvars, gvars, xvars>>
vars == <<cvars, hvars, rvars, lvars>>

World ==
    [env |-> env, fs |-> fs, args |-> args, registeredFlags |-> registeredFlags,
     CommandLine |-> CommandLine, cfgs |-> cfgs, defined |-> defined,
     parses |-> parses, status |-> status]

\* the variables take the values of the record w
Becomes(w) ==
    /\ env' = w.env
    /\ fs' = w.fs
    /\ args' = w.args
    /\ registeredFlags' = w.registeredFlags
    /\ CommandLine' = w.CommandLine
    /\ cfgs' = w.cfgs
    /\ defined' = w.defined
    /\ parses' = w.parses
    /\ status' = w.status

\* the paths a caller passes: "" stands for the default, ".env"
Paths == {"", ".env"}

\* the dotenv file is missing, cannot be parsed, or sets some of the keys
DotenvFiles ==
    {NoVars}
    \cup {[p \in {".env"} |-> [malformed |-> TRUE, vars |-> NoVars]]}
    \cup {[p \in {".env"} |-> [malformed |-> FALSE, vars |-> v]] :
            v \in PartialFns(Keys, FileValues)}

\* a fresh process: nothing registered, nothing parsed
InitProcess ==
    /\ registeredFlags = {}
    /\ CommandLine = NoVars
    /\ defined = [k \in Keys |-> 0]
    /\ parses = 0
    /\ status = "running"
    /\ ncalls = 0
    /\ last = [cfg |-> 0, err |-> Nil, validated |-> FALSE]

\* the two goroutines of SpecRace; goroutine g passes &cfgs[g]
Goroutines == {1, 2}

NotCalled == [pc |-> "idle", i |-> 0, defaultValue |-> "", err |-> Nil]

\* no loadConfig call runs in a goroutine of its own
NoRace ==
    /\ gs = [g \in Goroutines |-> NotCalled]
    /\ mapWriters = {}

\* main at `at`, before anything of the lifecycle exists
InitLifecycle(at) ==
    /\ mainPc = at
    /\ providers = {}
    /\ ctxDone = FALSE
    /\ wg = 0
    /\ inShutdown = FALSE
    /\ interrupt = 0
    /\ sent = 0
    /\ servePc = "notStarted"
    /\ serveErr = "none"
    /\ serveLogged = FALSE
    /\ termPc = "notStarted"
    /\ notify = FALSE
    /\ teardownCalls = 0
    /\ tdi = 0
    /\ torn = <<>>
    /\ tornErr = "none"
    /\ genPc = "notStarted"
    /\ idx = 0
    /\ roll = 0
    /\ rolled = FALSE
    /\ genErr = "none"
    /\ late = FALSE

(***************************************************************************)
(* SpecConfig: a process that calls loadConfig some number of times, one   *)
(* call after the other, under every environment, dotenv file and command  *)
(* line. Config 1 is the Config{} of main; the others are empty or already *)
(* hold values.                                                            *)
(***************************************************************************)
InitConfig ==
    /\ env \in PartialFns(Keys, EnvValues)
    /\ fs \in DotenvFiles
    /\ args \in PartialFns(Keys, ArgValues)
    /\ \E held \in {EmptyConfig, HeldConfig} :
           cfgs = [c \in ConfigIds |-> IF c = 1 THEN EmptyConfig ELSE held]
    /\ InitProcess
    /\ NoRace
    /\ InitLifecycle("test")

\* err := loadConfig(&cfgs[c], path)
LoadConfigCall(c, path) ==
    /\ status = "running"
    /\ ncalls < MaxCalls
    /\ \E r \in {loadConfig(World, c, path)} :
           /\ Becomes(r.w)
           /\ last' = [cfg |-> c, err |-> r.err, validated |-> r.validated]
    /\ ncalls' = ncalls + 1
    /\ UNCHANGED <<rvars, lvars>>

NextConfig == \E c \in ConfigIds, path \in Paths : LoadConfigCall(c, path)

SpecConfig == InitConfig /\ [][NextConfig]_vars

(***************************************************************************)
(* SpecRace: two goroutines call loadConfig(&cfgs[g], "") at the same      *)
(* time. registerFlag takes no lock, so its statements interleave: the     *)
(* read of the environment, the read of registeredFlags[name], the         *)
(* flag.StringVar call, the write registeredFlags[name] = true, and the    *)
(* second read with the assignment it guards. An access to the map while   *)
(* another goroutine writes it is a data race: the runtime may stop the    *)
(* process ("concurrent map read and map write", "concurrent map writes")  *)
(* or let the access go through.                                           *)
(***************************************************************************)
InitRace ==
    /\ env \in PartialFns(Keys, EnvValues)
    /\ fs = NoVars
    /\ args \in PartialFns({"servicename"}, ArgValues)
    /\ cfgs = [c \in ConfigIds |-> EmptyConfig]
    /\ InitProcess
    /\ gs = [g \in Goroutines |-> [NotCalled EXCEPT !.pc = "start"]]
    /\ mapWriters = {}
    /\ InitLifecycle("test")

At(g, pc) == status = "running" /\ gs[g].pc = pc

NameOf(g) == KeyOrder[gs[g].i]

\* lines 66-77: the dotenv file is looked for and loaded
GLoad(g) ==
    /\ At(g, "start")
    /\ LET l == IF ".env" \in DOMAIN fs THEN godotenvLoad(World, ".env")
                ELSE [w |-> World, err |-> Nil]
       IN  /\ Becomes(l.w)
           /\ gs' = IF l.err # Nil
                    THEN [gs EXCEPT ![g].pc = "returned",
                                    ![g].err = Wrapf("loading .env file", l.err)]
                    ELSE [gs EXCEPT ![g].pc = "getenv", ![g].i = 1]
    /\ UNCHANGED <<hvars, mapWriters, lvars>>

\* line 16: defaultValue := os.Getenv(name)
GGetenv(g) ==
    /\ At(g, "getenv")
    /\ gs' = [gs EXCEPT ![g].defaultValue = Getenv(env, NameOf(g)), ![g].pc = "check"]
    /\ UNCHANGED <<cvars, hvars, mapWriters, lvars>>

\* line 18: if !registeredFlags[name]
GCheck(g) ==
    /\ At(g, "check")
    /\ gs' = [gs EXCEPT ![g].pc = IF NameOf(g) \notin registeredFlags
                                   THEN "define" ELSE "recheck"]
    /\ UNCHANGED <<cvars, hvars, mapWriters, lvars>>

\* line 19: flag.StringVar(value, name, defaultValue, usage)
GDefine(g) ==
    /\ At(g, "define")
    /\ Becomes(StringVar(World, g, NameOf(g), gs[g].defaultValue))
    /\ gs' = [gs EXCEPT ![g].pc = "mark"]
    /\ UNCHANGED <<hvars, mapWriters, lvars>>

\* line 20: the write registeredFlags[name] = true starts
GMark(g) ==
    /\ At(g, "mark")
    /\ mapWriters' = mapWriters \cup {g}
    /\ gs' = [gs EXCEPT ![g].pc = "marking"]
    /\ UNCHANGED <<cvars, hvars, lvars>>

\* line 20: the write registeredFlags[name] = true is done
GMarked(g) ==
    /\ At(g, "marking")
    /\ Becomes(MarkRegistered(World, NameOf(g)))
    /\ mapWriters' = mapWriters \ {g}
    /\ gs' = [gs EXCEPT ![g].pc = "recheck"]
    /\ UNCHANGED <<hvars, lvars>>

\* lines 23-25: if registeredFlags[name] && defaultValue != "" { *value = defaultValue }
GRecheck(g) ==
    /\ At(g, "recheck")
    /\ Becomes(AssignDefault(World, g, NameOf(g), gs[g].defaultValue))
    /\ gs' = IF gs[g].i < Len(KeyOrder)
             THEN [gs EXCEPT ![g].pc = "getenv", ![g].i = @ + 1]
             ELSE [gs EXCEPT ![g].pc = "parse"]
    /\ UNCHANGED <<hvars, mapWriters, lvars>>

\* line 86: flag.Parse()
GParse(g) ==
    /\ At(g, "parse")
    /\ Becomes(Parse(World))
    /\ gs' = [gs EXCEPT ![g].pc = "validate"]
    /\ UNCHANGED <<hvars, mapWriters, lvars>>

\* line 88: return cfg.validate()
GValidate(g) ==
    /\ At(g, "validate")
    /\ gs' = [gs EXCEPT ![g].pc = "returned", ![g].err = validate(cfgs[g])]
    /\ UNCHANGED <<cvars, hvars, mapWriters, lvars>>

\* lines 18, 20, 23: the runtime catches a map access made while another
\* goroutine is writing the map, and stops the process
GMapFault(g) ==
    /\ status = "running"
    /\ gs[g].pc \in {"check", "mark", "marking", "recheck"}
    /\ mapWriters \ {g} # {}
    /\ status' = "fatal"
    /\ UNCHANGED <<env, fs, args, registeredFlags, CommandLine, cfgs, defined, parses>>
    /\ UNCHANGED <<hvars, rvars, lvars>>

NextRace ==
    \E g \in Goroutines :
        \/ GLoad(g)
        \/ GGetenv(g)
        \/ GCheck(g)
        \/ GDefine(g)
        \/ GMark(g)
        \/ GMarked(g)
        \/ GRecheck(g)
        \/ GParse(g)
        \/ GValidate(g)
        \/ GMapFault(g)

SpecRace == InitRace /\ [][NextRace]_vars

(***************************************************************************)
(* SpecMain: the process started by main. main resolves the configuration, *)
(* sets up the three providers and the pprof server and launches           *)
(* servePprof, handleTermination and generateData, then waits for them.    *)
(* log.Fatalf ends the process. The OS delivers interrupts; those that     *)
(* arrive before signal.Notify has registered the channel are not part of  *)
(* the model (the runtime's default action ends the process there). The    *)
(* context may also be cancelled from outside the three tasks once the     *)
(* lifecycle has been launched, as the test harness does.                  *)
(***************************************************************************)
\* capacity of the interrupt channel
ChanCap == 1
\* the roll counters generateData creates: roll-0-count .. roll-10-count
NumCounters == 11
\* rand.Intn(10)
Faces == 10

\* the teardown closure of main: its callbacks, in the order it calls them
TeardownOrderOfTest == <<"close", "trace", "meter", "log">>

\* a teardown closure that does not close the pprof server
TeardownOrderNoClose == <<"log", "trace", "meter">>

TeardownOrder == <<"close", "log", "trace", "meter">>

\* what main may find: nothing, all but one value, or all values in the
\* environment, with no dotenv file or one that cannot be parsed; or all
\* values in a dotenv file
MainScenarios ==
    {[env |-> [k \in S |-> "E"], fs |-> f] :
        S \in {{}, Keys \ {"pprofurl"}, Keys},
        f \in {NoVars, [p \in {".env"} |-> [malformed |-> TRUE, vars |-> NoVars]]}}
    \cup {[env |-> NoVars,
           fs  |-> [p \in {".env"} |->
                       [malformed |-> FALSE, vars |-> [k \in Keys |-> "F"]]]]}

\* main starts in scenario sc: cfg := &Config{}, nothing has run
MainStartsIn(sc) ==
    /\ env = sc.env
    /\ fs = sc.fs
    /\ args = NoVars
    /\ cfgs = [c \in ConfigIds |-> EmptyConfig]
    /\ InitProcess
    /\ NoRace
    /\ InitLifecycle("loadConfig")

InitMain == \E sc \in MainScenarios : MainStartsIn(sc)

\* the scenarios without a dotenv file in which nothing or everything is set
InitMainFair ==
    \E sc \in MainScenarios :
        /\ sc.fs = NoVars
        /\ DOMAIN sc.env \in {{}, Keys}
        /\ MainStartsIn(sc)

\* the process has neither exited nor been ended by log.Fatalf
Alive == mainPc \notin {"fatal", "exited"}

\* a main that goes on after loadConfig returned an error
AfterLoadConfigIgnoringErr(err) == "resource"

\* lines 197-199: if err != nil { log.Fatalf(...) }
AfterLoadConfig(err) == IF err # Nil THEN "fatal" ELSE "resource"

\* lines 195-199
MainLoadConfig ==
    /\ mainPc = "loadConfig"
    /\ \E r \in {loadConfig(World, 1, "")} :
           /\ Becomes(r.w)
           /\ last' = [cfg |-> 1, err |-> r.err, validated |-> r.validated]
           /\ mainPc' = AfterLoadConfig(r.err)
    /\ ncalls' = ncalls + 1
    /\ UNCHANGED <<rvars, providers, svars, tvars, gvars, xvars>>

\* lines 201-209: the context is created; resource.New succeeds or is fatal
MainResource ==
    /\ mainPc = "resource"
    /\ mainPc' \in {"setupLogging", "fatal"}
    /\ UNCHANGED <<cvars, hvars, rvars, providers, svars, tvars, gvars, xvars>>

\* setupLogging, setupTracing, setupMetrics: the exporter is created or
\* log.Fatalf ends the process
MainSetup(at, provider, next) ==
    /\ mainPc = at
    /\ \/ /\ mainPc' = next
          /\ providers' = providers \cup {provider}
       \/ /\ mainPc' = "fatal"
          /\ UNCHANGED providers
    /\ UNCHANGED <<cvars, hvars, rvars, svars, tvars, gvars, xvars>>

\* lines 228-238: setupPprof, the teardown closure, wg.Add(3), go servePprof
MainLaunch ==
    /\ mainPc = "launch"
    /\ wg' = wg + 3
    /\ servePc' = "start"
    /\ mainPc' = "goTerm"
    /\ UNCHANGED <<cvars, hvars, rvars, providers, serveErr, serveLogged, tvars, gvars>>
    /\ UNCHANGED <<ctxDone, inShutdown, interrupt, sent>>

\* line 239: go handleTermination
MainGoTerm ==
    /\ mainPc = "goTerm"
    /\ termPc' = "start"
    /\ mainPc' = "goGen"
    /\ UNCHANGED <<cvars, hvars, rvars, providers, svars, gvars, xvars>>
    /\ UNCHANGED <<notify, teardownCalls, tdi, torn, tornErr>>

\* line 240: go generateData
MainGoGen ==
    /\ mainPc = "goGen"
    /\ genPc' = "start"
    /\ mainPc' = "wait"
    /\ UNCHANGED <<cvars, hvars, rvars, providers, svars, tvars, xvars, idx, roll, ovars>>

\* lines 241-242: wg.Wait() returns, the deferred cancel runs, main returns
MainWait ==
    /\ mainPc = "wait"
    /\ wg = 0
    /\ mainPc' = "exited"
    /\ ctxDone' = TRUE
    /\ UNCHANGED <<cvars, hvars, rvars, providers, svars, tvars, gvars>>
    /\ UNCHANGED <<wg, inShutdown, interrupt, sent>>

\* lines 194-235: main up to the launch of the tasks
MainSetupStep ==
    \/ MainLoadConfig
    \/ MainResource
    \/ MainSetup("setupLogging", "log", "setupTracing")
    \/ MainSetup("setupTracing", "trace", "setupMetrics")
    \/ MainSetup("setupMetrics", "meter", "launch")

\* lines 237-242: main from the launch of the tasks on
MainRunStep ==
    \/ MainLaunch
    \/ MainGoTerm
    \/ MainGoGen
    \/ MainWait

(***************************************************************************)
(* servePprof                                                              *)
(***************************************************************************)
\* line 166: ListenAndServe returns ErrServerClosed at once when the server
\* has been closed already
ServeStart ==
    /\ Alive
    /\ servePc = "start"
    /\ IF inShutdown
       THEN servePc' = "done" /\ serveErr' = "ErrServerClosed"
       ELSE servePc' = "listen" /\ UNCHANGED serveErr
    /\ UNCHANGED serveLogged
    /\ UNCHANGED <<cvars, hvars, rvars, mvars, tvars, gvars, xvars>>

\* line 166: net.Listen binds the address or fails
ServeListen ==
    /\ Alive
    /\ servePc = "listen"
    /\ \/ servePc' = "track" /\ UNCHANGED serveErr
       \/ servePc' = "done" /\ serveErr' = "listen"
    /\ UNCHANGED serveLogged
    /\ UNCHANGED <<cvars, hvars, rvars, mvars, tvars, gvars, xvars>>

\* line 166: Serve registers the listener unless the server has been closed
ServeTrack ==
    /\ Alive
    /\ servePc = "track"
    /\ IF inShutdown
       THEN servePc' = "done" /\ serveErr' = "ErrServerClosed"
       ELSE servePc' = "serving" /\ UNCHANGED serveErr
    /\ UNCHANGED serveLogged
    /\ UNCHANGED <<cvars, hvars, rvars, mvars, tvars, gvars, xvars>>

\* a server whose accept loop ends when the context is cancelled
ServeClosedOnCancel ==
    /\ Alive
    /\ servePc = "serving"
    /\ ctxDone
    /\ servePc' = "done"
    /\ serveErr' = "ErrServerClosed"
    /\ UNCHANGED serveLogged
    /\ UNCHANGED <<cvars, hvars, rvars, mvars, tvars, gvars, xvars>>

\* line 166: the accept loop ends when Close has closed the listener
ServeClosed ==
    /\ Alive
    /\ servePc = "serving"
    /\ inShutdown
    /\ servePc' = "done"
    /\ serveErr' = "ErrServerClosed"
    /\ UNCHANGED serveLogged
    /\ UNCHANGED <<cvars, hvars, rvars, mvars, tvars, gvars, xvars>>

\* a servePprof that logs whatever ListenAndServe returned
IsLoggedAny(err) == err # "none"

\* line 167: err != nil && !errors.Is(err, http.ErrServerClosed)
IsLogged(err) == err # "none" /\ err # "ErrServerClosed"

\* a task whose deferred wg.Done is missing
DoneMissing(n) == n

\* wg.Done()
Done(n) == n - 1

\* lines 164, 167-170: the error is logged unless it is ErrServerClosed;
\* the deferred wg.Done runs
ServeReturn ==
    /\ Alive
    /\ servePc = "done"
    /\ servePc' = "returned"
    /\ serveLogged' = IsLogged(serveErr)
    /\ wg' = Done(wg)
    /\ UNCHANGED <<cvars, hvars, rvars, mvars, serveErr, tvars, gvars>>
    /\ UNCHANGED <<ctxDone, inShutdown, interrupt, sent>>

ServeStep ==
    \/ ServeStart
    \/ ServeListen
    \/ ServeTrack
    \/ ServeClosed
    \/ ServeReturn

(***************************************************************************)
(* handleTermination and the teardown closure                              *)
(***************************************************************************)
\* lines 177-179: signal.Notify(interrupt, os.Interrupt)
TermNotify ==
    /\ Alive
    /\ termPc = "start"
    /\ notify' = TRUE
    /\ termPc' = "select"
    /\ UNCHANGED <<cvars, hvars, rvars, mvars, svars, gvars, xvars>>
    /\ UNCHANGED <<teardownCalls, tdi, torn, tornErr>>

\* lines 184-185: case <-ctx.Done(): teardown(ctx)
TermCtxDone ==
    /\ Alive
    /\ termPc = "select"
    /\ ctxDone
    /\ termPc' = "teardown"
    /\ teardownCalls' = teardownCalls + 1
    /\ tdi' = 1
    /\ UNCHANGED <<cvars, hvars, rvars, mvars, svars, gvars, xvars>>
    /\ UNCHANGED <<notify, torn, tornErr>>

\* line 188: case <-interrupt
TermInterrupt ==
    /\ Alive
    /\ termPc = "select"
    /\ interrupt > 0
    /\ interrupt' = interrupt - 1
    /\ termPc' = "cancel"
    /\ UNCHANGED <<cvars, hvars, rvars, mvars, svars, gvars>>
    /\ UNCHANGED <<ctxDone, wg, inShutdown, sent>>
    /\ UNCHANGED <<notify, teardownCalls, tdi, torn, tornErr>>

\* line 189: cancel(), and the loop goes round
TermCancel ==
    /\ Alive
    /\ termPc = "cancel"
    /\ ctxDone' = TRUE
    /\ termPc' = "select"
    /\ UNCHANGED <<cvars, hvars, rvars, mvars, svars, gvars>>
    /\ UNCHANGED <<wg, inShutdown, interrupt, sent>>
    /\ UNCHANGED <<notify, teardownCalls, tdi, torn, tornErr>>

\* a handleTermination that goes back to the select after teardown
AfterTeardownLoop == "select"

\* line 186: return (after teardown)
AfterTeardown == "deferred"

\* lines 231-234: the next statement of the closure; results are discarded
TeardownNext(i, failed) ==
    IF i = Len(TeardownOrder) THEN 0 ELSE i + 1

\* lines 231-234: one callback of the teardown closure runs and returns nil
\* or an error
TermTeardown ==
    /\ Alive
    /\ termPc = "teardown"
    /\ \E failed \in BOOLEAN :
        LET cb == TeardownOrder[tdi]
            n  == TeardownNext(tdi, failed)
        IN  /\ torn' = Append(torn, cb)
            /\ tornErr' = IF failed /\ tornErr = "none" THEN cb ELSE tornErr
            /\ inShutdown' = IF cb = "close" THEN TRUE ELSE inShutdown
            /\ tdi' = n
            /\ termPc' = IF n = 0 THEN AfterTeardown ELSE "teardown"
    /\ UNCHANGED <<cvars, hvars, rvars, mvars, svars, gvars>>
    /\ UNCHANGED <<ctxDone, wg, interrupt, sent>>
    /\ UNCHANGED <<notify, teardownCalls>>

\* line 174: the deferred wg.Done
TermReturn ==
    /\ Alive
    /\ termPc = "deferred"
    /\ termPc' = "returned"
    /\ wg' = Done(wg)
    /\ UNCHANGED <<cvars, hvars, rvars, mvars, svars, gvars>>
    /\ UNCHANGED <<ctxDone, inShutdown, interrupt, sent>>
    /\ UNCHANGED <<notify, teardownCalls, tdi, torn, tornErr>>

TermStep ==
    \/ TermNotify
    \/ TermCtxDone
    \/ TermInterrupt
    \/ TermCancel
    \/ TermTeardown
    \/ TermReturn

(***************************************************************************)
(* generateData and rollDice                                               *)
(***************************************************************************)
\* a generateData that goes on after a counter could not be created
AfterCounterErrGoOn == "loop"

\* lines 118-121, 127-130: the error is logged and the task returns
AfterCounterErr == "done"

\* lines 115-121: the dice-rolls counter is created, or the task returns
GenStart ==
    /\ Alive
    /\ genPc = "start"
    /\ \/ /\ genPc' = "counters"
          /\ UNCHANGED genErr
       \/ /\ genPc' = AfterCounterErr
          /\ genErr' = "dice-rolls"
    /\ UNCHANGED <<cvars, hvars, rvars, mvars, svars, tvars, xvars>>
    /\ UNCHANGED <<idx, roll, rolled, late>>

\* lines 123-133: one roll counter is created, or the task returns
GenCounter ==
    /\ Alive
    /\ genPc = "counters"
    /\ \/ /\ idx' = idx + 1
          /\ genPc' = IF idx + 1 < NumCounters THEN "counters" ELSE "loop"
          /\ UNCHANGED genErr
       \/ /\ genPc' = AfterCounterErr
          /\ genErr' = "roll"
          /\ UNCHANGED idx
    /\ UNCHANGED <<cvars, hvars, rvars, mvars, svars, tvars, xvars>>
    /\ UNCHANGED <<roll, rolled, late>>

\* a loop that rolls without looking at the context
GenSelectNoCheck ==
    /\ Alive
    /\ genPc = "loop"
    /\ genPc' = "span"
    /\ roll' \in 0..(Faces - 1)
    /\ rolled' = TRUE
    /\ UNCHANGED <<cvars, hvars, rvars, mvars, svars, tvars, xvars>>
    /\ UNCHANGED <<idx, genErr, late>>

\* lines 136-140: the select on ctx.Done() with a default case
GenSelect ==
    /\ Alive
    /\ genPc = "loop"
    /\ IF ctxDone
       THEN genPc' = "done" /\ UNCHANGED <<roll, rolled>>
       ELSE genPc' = "span" /\ roll' \in 0..(Faces - 1) /\ rolled' = TRUE
    /\ UNCHANGED <<cvars, hvars, rvars, mvars, svars, tvars, xvars>>
    /\ UNCHANGED <<idx, genErr, late>>

\* the provider each statement of a roll records to: tracer.Start (line 87),
\* logger.LogAttrs (lines 97-106), time.Sleep, span.End (line 88),
\* diceRolls.Add (line 143), rollFreq[roll].Add (line 144)
ProviderOf ==
    [span |-> "trace", log |-> "log", sleep |-> "none", end |-> "trace",
     addRolls |-> "meter", addFreq |-> "meter"]

\* the provider's shutdown callback has run
IsShutDown(provider) == \E i \in 1..Len(torn) : torn[i] = provider

\* the statement `at` of a roll runs and `next` follows
GenAdvance(at, next) ==
    /\ Alive
    /\ genPc = at
    /\ genPc' = next
    /\ roll' = IF next = "loop" THEN 0 ELSE roll
    /\ late' = (late \/ IsShutDown(ProviderOf[at]))
    /\ UNCHANGED <<cvars, hvars, rvars, mvars, svars, tvars, xvars>>
    /\ UNCHANGED <<idx, rolled, genErr>>

\* line 113: the deferred wg.Done
GenReturn ==
    /\ Alive
    /\ genPc = "done"
    /\ genPc' = "returned"
    /\ wg' = Done(wg)
    /\ UNCHANGED <<cvars, hvars, rvars, mvars, svars, tvars, idx, roll, ovars>>
    /\ UNCHANGED <<ctxDone, inShutdown, interrupt, sent>>

GenStep ==
    \/ GenStart
    \/ GenCounter
    \/ GenSelect
    \/ GenAdvance("span", "log")
    \/ GenAdvance("log", "sleep")
    \/ GenAdvance("sleep", "end")
    \/ GenAdvance("end", "addRolls")
    \/ GenAdvance("addRolls", "addFreq")
    \/ GenAdvance("addFreq", "loop")
    \/ GenReturn

(***************************************************************************)
(* The environment of the process.                                         *)
(***************************************************************************)
\* the OS delivers an interrupt: it is queued, or dropped when the channel
\* is full
Interrupt ==
    /\ Alive
    /\ notify
    /\ sent < MaxInterrupts
    /\ sent' = sent + 1
    /\ interrupt' = IF interrupt < ChanCap THEN interrupt + 1 ELSE interrupt
    /\ UNCHANGED <<cvars, hvars, rvars, mvars, svars, tvars, gvars>>
    /\ UNCHANGED <<ctxDone, wg, inShutdown>>

\* the shared context is cancelled from outside the three tasks
ExternalCancel ==
    /\ mainPc \in {"goTerm", "goGen", "wait"}
    /\ ~ctxDone
    /\ ctxDone' = TRUE
    /\ UNCHANGED <<cvars, hvars, rvars, mvars, svars, tvars, gvars>>
    /\ UNCHANGED <<wg, inShutdown, interrupt, sent>>

NextMain ==
    \/ MainSetupStep
    \/ MainRunStep
    \/ ServeStep
    \/ TermStep
    \/ GenStep
    \/ Interrupt
    \/ ExternalCancel

SpecMain == InitMain /\ [][NextMain]_vars

\* the Go scheduler lets every goroutine that can take a step take it, and
\* sleeps end: main, once it launches the tasks, and each task keep going
SpecMainFair ==
    /\ InitMainFair
    /\ [][NextMain]_vars
    /\ WF_vars(MainRunStep)
    /\ WF_vars(ServeStep)
    /\ WF_vars(TermStep)
    /\ WF_vars(GenStep)

(***************************************************************************)
(* Claims about the configuration resolver (checked under SpecConfig).     *)
(***************************************************************************)
\* the sub-error validate reports for each required field
RequiredMessage ==
    [collectorgrpcurl |-> "collector grpc endpoint required",
     collectorhttpurl |-> "collector http endpoint required",
     servicename      |-> "service name required",
     pprofurl         |-> "pprof endpoint required"]

EmptyKeys(c) == {k \in Keys : c[FieldOf[k]] = ""}

SeqRange(s) == {s[i] : i \in 1..Len(s)}

\* the dotenv file both paths resolve to exists and cannot be parsed
DotenvMalformed == ".env" \in DOMAIN fs /\ fs[".env"].malformed

\* C1: whenever validate has run on a Config, the error is nil exactly when
\* no required field is empty, and otherwise its joined sub-errors are the
\* messages of exactly the empty fields, one each (nothing is cut short).
C1_ValidateReportsExactlyTheEmptyFields ==
    (ncalls > 0 /\ last.validated) =>
        LET c    == cfgs[last.cfg]
            msgs == Messages(last.err)
        IN  /\ (last.err = Nil) <=> (EmptyKeys(c) = {})
            /\ SeqRange(msgs) = {RequiredMessage[k] : k \in EmptyKeys(c)}
            /\ Len(msgs) = Cardinality(EmptyKeys(c))

\* validate ran on a Config with all four fields empty and joined four errors
C1_Witness ==
    /\ ncalls > 0
    /\ last.validated
    /\ EmptyKeys(cfgs[last.cfg]) = Keys
    /\ Len(Messages(last.err)) = 4

\* what the claim says a key resolves to, from the state before the call
Precedence(k) ==
    IF k \in DOMAIN args THEN args[k]
    ELSE IF k \in DOMAIN env THEN env[k]
    ELSE IF ".env" \in DOMAIN fs /\ k \in DOMAIN fs[".env"].vars
         THEN fs[".env"].vars[k]
    ELSE ""

\* C2: the first loadConfig call of a process, on an empty Config, leaves in
\* each field the flag's value if the flag was passed, else the value the
\* environment held before the call, else the dotenv file's value, else "".
C2_FirstCallPrecedence ==
    [][(/\ ncalls = 0
        /\ ncalls' = 1
        /\ last'.validated
        /\ cfgs[last'.cfg] = EmptyConfig)
       => \A k \in Keys : cfgs'[last'.cfg][FieldOf[k]] = Precedence(k)]_vars

\* after a first call, one field came from a flag passed over an environment
\* value, one from the environment over a file value, one from the file alone
C2_Witness ==
    /\ ncalls = 1
    /\ last.validated
    /\ ".env" \in DOMAIN fs
    /\ \E a, e, f \in Keys :
        /\ a \in DOMAIN args /\ a \in DOMAIN env /\ env[a] = "E"
        /\ cfgs[last.cfg][FieldOf[a]] = "A"
        /\ e \notin DOMAIN args /\ e \in DOMAIN fs[".env"].vars
        /\ cfgs[last.cfg][FieldOf[e]] = "E"
        /\ f \notin DOMAIN args /\ cfgs[last.cfg][FieldOf[f]] = "F"

\* C3: a loadConfig call that follows a successful one in the same process,
\* on the same or another Config, defines no flag again, returns no error and
\* leaves all four fields of its Config populated.
C3_SecondCallSucceeds ==
    [][(/\ ncalls >= 1
        /\ ncalls' = ncalls + 1
        /\ last.validated
        /\ last.err = Nil)
       => /\ defined' = defined
          /\ last'.err = Nil
          /\ EmptyKeys(cfgs'[last'.cfg]) = {}]_vars

\* C8: a loadConfig call on a dotenv file that exists and cannot be parsed
\* returns the wrapped load error and changes neither the flag table, the
\* defined flags, the Config objects nor the environment; flag.Parse and
\* validate are not run.
C8_MalformedDotenvAborts ==
    [][(ncalls' = ncalls + 1 /\ DotenvMalformed)
       => /\ last'.err.kind = "wrapError"
          /\ last'.err.msg = "loading .env file"
          /\ ~last'.validated
          /\ registeredFlags' = registeredFlags
          /\ CommandLine' = CommandLine
          /\ defined' = defined
          /\ parses' = parses
          /\ cfgs' = cfgs
          /\ env' = env]_vars

\* a call has returned the wrapped load error
C8_Witness ==
    /\ ncalls > 0
    /\ DotenvMalformed
    /\ last.err.kind = "wrapError"

\* C9 as stated: once a loadConfig call has got as far as parsing, the
\* command line has been parsed exactly one time, however many calls ran.
C9_ParsedExactlyOnce ==
    (ncalls > 0 /\ last.validated) => parses = 1

\* C9 amended: every flag is defined at most once per process, and flag.Parse
\* runs once in every loadConfig call that gets past the dotenv load, so
\* after n such calls the command line has been parsed n times.
C9_ParsedOnEveryCall ==
    /\ parses = (IF DotenvMalformed THEN 0 ELSE ncalls)
    /\ \A k \in Keys : defined[k] = (IF parses > 0 THEN 1 ELSE 0)

\* two calls have returned and the command line has been parsed twice
C9_Witness ==
    /\ ncalls = 2
    /\ parses = 2
    /\ \A k \in Keys : defined[k] = 1

\* goroutine g has read registeredFlags[name] as false and not yet written it
SawUnregistered(g, k) ==
    /\ gs[g].pc \in {"define", "mark", "marking"}
    /\ NameOf(g) = k

\* C10: when two loadConfig calls run concurrently, no two of them both see
\* a name as unregistered, no name is defined twice, and once both calls
\* have returned every name has been defined exactly once.
C10_ConcurrentCheckAndSetIsAtomic ==
    /\ \A k \in Keys : ~(SawUnregistered(1, k) /\ SawUnregistered(2, k))
    /\ \A k \in Keys : defined[k] <= 1
    /\ status \notin {"panic", "fatal"}
    /\ (\A g \in Goroutines : gs[g].pc = "returned") => \A k \in Keys : defined[k] = 1

(***************************************************************************)
(* Claims about the lifecycle (checked under SpecMain and SpecMainFair).   *)
(***************************************************************************)
\* the four teardown callbacks, in the order the claims give them: server
\* close, log shutdown, trace shutdown, metrics shutdown
ClaimedOrder == <<"close", "log", "trace", "meter">>

Runs(cb) == Cardinality({i \in 1..Len(torn) : torn[i] = cb})

TeardownOver == termPc \in {"deferred", "returned"}

\* C4: whatever the interleaving of external cancellation and interrupts,
\* the teardown closure is called at most once, no teardown callback runs
\* twice, and once teardown is over each of the four has run exactly once.
C4_TeardownAtMostOnce ==
    /\ teardownCalls <= 1
    /\ \A cb \in SeqRange(ClaimedOrder) : Runs(cb) <= 1
    /\ TeardownOver => \A cb \in SeqRange(ClaimedOrder) : Runs(cb) = 1

\* handleTermination has returned after two interrupts, one of them still
\* queued behind the cancellation, and teardown was called once
C4_Witness ==
    /\ termPc = "returned"
    /\ sent >= 2
    /\ interrupt = 1
    /\ teardownCalls = 1
    /\ \A cb \in SeqRange(ClaimedOrder) : Runs(cb) = 1

\* C5: no teardown callback runs before the context is cancelled, the
\* callbacks run in the order close, log, trace, meter, and all four have
\* run when teardown is over, whether or not one of them returned an error.
C5_TeardownAfterCancelInOrder ==
    /\ (teardownCalls > 0 \/ torn # <<>>) => ctxDone
    /\ Len(torn) <= Len(ClaimedOrder)
    /\ \A i \in 1..Len(torn) : i <= Len(ClaimedOrder) => torn[i] = ClaimedOrder[i]
    /\ TeardownOver => torn = ClaimedOrder

\* the server close returned an error and the three shutdowns still ran
C5_Witness ==
    /\ termPc = "returned"
    /\ tornErr = "close"
    /\ torn = ClaimedOrder

Terminated ==
    /\ mainPc = "exited"
    /\ servePc = "returned"
    /\ termPc = "returned"
    /\ genPc = "returned"

\* C6: under fair scheduling, once the context is cancelled the three tasks
\* return and wg.Wait() in main unblocks.
C6_CancelLeadsToTermination == ctxDone ~> Terminated

\* teardown has closed the server before servePprof called ListenAndServe
C6_Witness ==
    /\ ctxDone
    /\ inShutdown
    /\ servePc = "start"
    /\ mainPc = "wait"

\* C7: when loadConfig has returned an error in main, the process has been
\* ended by log.Fatalf: no provider has been set up, no task has been
\* launched and the WaitGroup is untouched.
C7_InvalidConfigStartsNothing ==
    (ncalls > 0 /\ last.err # Nil) =>
        /\ mainPc = "fatal"
        /\ providers = {}
        /\ servePc = "notStarted"
        /\ termPc = "notStarted"
        /\ genPc = "notStarted"
        /\ wg = 0

\* main has been ended by a missing required field
C7_Witness ==
    /\ mainPc = "fatal"
    /\ last.err.kind = "joinError"
    /\ providers = {}

(***************************************************************************)
(* Claims about the tasks of main.                                         *)
(***************************************************************************)

\* the statements of one roll, from tracer.Start to rollFreq[roll].Add
RollStatements == DOMAIN ProviderOf

\* the statement that follows each statement of a roll
FollowedBy ==
    [span |-> "log", log |-> "sleep", sleep |-> "end", end |-> "addRolls",
     addRolls |-> "addFreq", addFreq |-> "loop"]

\* C11: generateData looks at the context once per iteration, at the top of
\* the loop: a roll begins only at that check and only while the context is
\* not cancelled, a roll that has begun runs all its statements through the
\* two counter increments whether or not the context is cancelled meanwhile,
\* and the check made after cancellation makes the task return.
C11_NoRollBeginsAfterCancel ==
    [][/\ (genPc' = "span" /\ genPc # "span") => (genPc = "loop" /\ ~ctxDone)
       /\ (rolled' /\ ~rolled) => (genPc = "loop" /\ ~ctxDone)
       /\ (genPc \in RollStatements /\ genPc' # genPc) =>
              genPc' = FollowedBy[genPc]
       /\ (genPc = "loop" /\ ctxDone /\ genPc' # genPc) => genPc' = "done"
       /\ (genPc' = "done" /\ genPc = "loop") => ctxDone]_vars

\* the context was cancelled during a roll, and the roll has reached its
\* last counter increment
C11_Witness ==
    /\ ctxDone
    /\ genPc = "addFreq"
    /\ rolled

\* C12: when a counter cannot be created, generateData logs the error and
\* returns: it has started no roll and never starts one, the failing step
\* leaves the context, the WaitGroup, main, servePprof and handleTermination
\* as they were, the only step the task takes afterwards is its return with
\* the one deferred wg.Done, and main leaves wg.Wait only after the context
\* was cancelled and teardown has run.
C12_CounterFailureEndsOnlyTheEmitter ==
    [][/\ genErr' # "none" => (~rolled' /\ genPc' \in {"done", "returned"})
       /\ genErr' # genErr =>
              /\ genPc' = "done"
              /\ UNCHANGED <<ctxDone, wg, inShutdown, interrupt>>
              /\ UNCHANGED <<mvars, svars, tvars>>
       /\ (genErr # "none" /\ genPc' # genPc) =>
              (genPc = "done" /\ genPc' = "returned" /\ wg' = wg - 1)
       /\ (genErr # "none" /\ mainPc' = "exited" /\ mainPc # "exited") =>
              (ctxDone /\ torn = ClaimedOrder)]_vars

\* the eleven-counter loop failed and generateData has returned, while the
\* context is not cancelled and the other two tasks are still at work
C12_Witness ==
    /\ genErr = "roll"
    /\ genPc = "returned"
    /\ ~ctxDone
    /\ servePc = "serving"
    /\ termPc = "select"
    /\ mainPc = "wait"
    /\ wg = 2

\* C13: when ListenAndServe fails to listen, servePprof logs the error and
\* returns, and neither step touches the context, main, handleTermination or
\* generateData; an ErrServerClosed result is not logged; and under fair
\* scheduling a cancellation that follows the failure still leads to one
\* teardown call and to the return of the three tasks and of main.
C13_ListenFailureIsLoggedAndContained ==
    /\ [][/\ serveErr' # serveErr =>
                 /\ servePc' = "done"
                 /\ UNCHANGED <<ctxDone, wg, inShutdown, interrupt>>
                 /\ UNCHANGED <<mvars, tvars, gvars>>
          /\ (servePc' = "returned" /\ servePc # "returned") =>
                 /\ serveLogged' <=> (serveErr = "listen")
                 /\ wg' = wg - 1
                 /\ UNCHANGED <<ctxDone, inShutdown, interrupt>>
                 /\ UNCHANGED <<mvars, tvars, gvars>>
          /\ serveLogged' => serveErr' = "listen"]_vars
    /\ (serveErr = "listen" /\ ctxDone) ~>
           (Terminated /\ teardownCalls = 1 /\ serveLogged)

\* the listen failure was logged, the emitter went on rolling, and after a
\* cancellation everything has returned with teardown called once
C13_Witness ==
    /\ serveErr = "listen"
    /\ serveLogged
    /\ rolled
    /\ Terminated
    /\ teardownCalls = 1
    /\ torn = ClaimedOrder

\* ListenAndServe got past net.Listen and has not returned
Listening == servePc \in {"track", "serving"}

\* C14: servePprof is over only if ListenAndServe failed to listen or the
\* server was closed by teardown; ErrServerClosed is returned only after the
\* close; so while the context is cancelled and the close has not run, a
\* server that got past its listen call is still serving.
C14_ServerEndsOnlyOnCloseOrListenFailure ==
    /\ servePc \in {"done", "returned"} => (serveErr = "listen" \/ inShutdown)
    /\ serveErr = "ErrServerClosed" => inShutdown
    /\ (ctxDone /\ ~inShutdown /\ Alive /\ serveErr # "listen" /\
        servePc \notin {"notStarted", "start", "listen"}) => Listening

\* teardown has been called after the cancellation and has not yet closed
\* the server, which is still serving
C14_Witness ==
    /\ ctxDone
    /\ teardownCalls = 1
    /\ torn = <<>>
    /\ ~inShutdown
    /\ servePc = "serving"

\* C15: no statement of a roll (tracer.Start, logger.LogAttrs, span.End,
\* diceRolls.Add, rollFreq[roll].Add) runs once the shutdown callback of the
\* provider it records to has run.
C15_NoTelemetryAfterProviderShutdown == ~late

\* wg.Add(3) has run
Launched == mainPc \in {"goTerm", "goGen", "wait", "exited"}

\* the tasks that have not returned
Unreturned == {t \in {"serve", "term", "gen"} :
                   [serve |-> servePc, term |-> termPc, gen |-> genPc][t] # "returned"}

\* C16: the WaitGroup counter is 0 before wg.Add(3) and afterwards equals the
\* number of tasks that have not returned, so it stays within 0..3; it
\* changes only by the Add and by the one wg.Done of a returning task; main
\* leaves wg.Wait only from a state where the counter is 0, the context is
\* cancelled and the four teardown callbacks have run; and when servePprof
\* and generateData have both returned while the context is not cancelled,
\* main is blocked in wg.Wait with the counter at 1.
C16_WaitGroupCountsUnreturnedTasks ==
    [][/\ wg' \in 0..3
       /\ wg' = IF Launched' THEN Cardinality(Unreturned') ELSE 0
       /\ wg' # wg =>
              \/ wg = 0 /\ wg' = 3 /\ ~Launched /\ Launched'
              \/ wg' = wg - 1 /\ Cardinality(Unreturned \ Unreturned') = 1
       /\ (mainPc' = "exited" /\ mainPc # "exited") =>
              /\ wg = 0
              /\ ctxDone
              /\ torn = ClaimedOrder
              /\ teardownCalls = 1
       /\ (servePc' = "returned" /\ genPc' = "returned" /\ ~ctxDone') =>
              (mainPc' = "wait" /\ wg' = 1 /\ termPc' # "returned")]_vars

\* servePprof returned on a listen failure and generateData on a counter
\* failure; after a cancellation the counter has reached 0 and main has left
\* wg.Wait
C16_Witness ==
    /\ Terminated
    /\ serveErr = "listen"
    /\ genErr # "none"
    /\ wg = 0
    /\ torn = ClaimedOrder

(***************************************************************************)
(* Claims about loadConfig across calls.                                   *)
(***************************************************************************)

\* C17: every loadConfig call that gets past the dotenv load leaves in each
\* field of its Config the value that flags, environment and dotenv file
\* resolve to, "" for a key none of them holds, and returns nil exactly when
\* none of the four resolves to "": neither the Config's contents before the
\* call nor earlier calls matter.
C17_OutcomeDependsOnInputsOnly ==
    [][(ncalls' = ncalls + 1 /\ last'.validated)
       => /\ \A k \in Keys : cfgs'[last'.cfg][FieldOf[k]] = Precedence(k)
          /\ last'.err = Nil <=> (\A k \in Keys : Precedence(k) # "")]_vars

====
